---- MODULE Spec2Model ----
(***************************************************************************)
(* Model of src/my_calendar.py: is_leap_year, day_of_week, week_number and *)
(* date_summary.  The four functions are pure; the state of the model is   *)
(* the caller's view of one call: the arguments it holds, the function it  *)
(* called last and the outcome (a returned value or a raised exception),   *)
(* together with the locals of the call that the properties talk about     *)
(* (day_of_week's base, week_number's month_len dictionary).               *)
(***************************************************************************)
EXTENDS Integers, Sequences, FiniteSets, TLC

VARIABLES day, month, year, fn, outcome, base, month_len, memo

vars == <<day, month, year, fn, outcome, base, month_len, memo>>

(* ------------------------------ bounds --------------------------------- *)
\* Days run from -DaysBelow to MaxDay, months from -MonthsBelow to MaxMonth,
\* years from 1753 - YearsBefore to LastYear.
DaysBelow == 8
MaxDay == 32
MonthsBelow == 1
MaxMonth == 15
YearsBefore == 3
LastYear == 2102
\* is_leap_year alone is exercised on -LeapYearsBelow .. LeapYearsAbove.
LeapYearsBelow == 801
LeapYearsAbove == 2401
\* Inputs of the call sequences: days 1..SeqMaxDay, months 1..SeqMaxMonth,
\* years 2023..2023+SeqYearSpan.
SeqMaxDay == 3
SeqMaxMonth == 3
SeqYearSpan == 1

Days == (0 - DaysBelow)..MaxDay
Months == (0 - MonthsBelow)..MaxMonth
Years == (1753 - YearsBefore)..LastYear
LeapYears == (0 - LeapYearsBelow)..LeapYearsAbove
SeqDays == 1..SeqMaxDay
SeqMonths == 1..SeqMaxMonth
SeqYears == 2023..(2023 + SeqYearSpan)

(* ------------------------------ outcomes ------------------------------- *)
Return(v) == [kind |-> "return", value |-> v]
ValueError(msg) == [kind |-> "ValueError", value |-> msg]
KeyError(key) == [kind |-> "KeyError", value |-> key]
NoOutcome == [kind |-> "none", value |-> 0]
NoMemo == [fn |-> "none"]

(* --------------------------- Python arithmetic ------------------------- *)
\* A remainder that takes the sign of the dividend (C's %), not Python's.
TruncMod(a, b) == IF a >= 0 THEN a % b ELSE 0 - ((0 - a) % b)

\* Python's a % b for b > 0: the result has the sign of the divisor.
PyMod(a, b) == a % b

\* Python's a // b for b > 0: floor division.
PyFloorDiv(a, b) == a \div b

\* int(yy * 1.25): the double product is exact for the two-digit years the
\* code passes (a multiple of 0.25 far below 2^53); int() truncates toward 0.
IntTimes125(yy) ==
    IF yy >= 0 THEN (5 * yy) \div 4 ELSE 0 - ((5 * (0 - yy)) \div 4)

(* ------------------------------ is_leap_year --------------------------- *)
is_leap_year_no400(y) == PyMod(y, 4) = 0 /\ PyMod(y, 100) # 0

is_leap_year(y) ==
    (PyMod(y, 4) = 0 /\ PyMod(y, 100) # 0) \/ (PyMod(y, 400) = 0)

(* ------------------------------ day_of_week ---------------------------- *)
month_code == <<1, 4, 4, 0, 2, 5, 0, 3, 6, 1, 4, 6>>

weekday ==
    [r \in 0..6 |->
        CASE r = 1 -> "Sunday"
          [] r = 2 -> "Monday"
          [] r = 3 -> "Tuesday"
          [] r = 4 -> "Wednesday"
          [] r = 5 -> "Thursday"
          [] r = 6 -> "Friday"
          [] r = 0 -> "Saturday"]

\* 'if' in place of 'elif': a year below 1800 gets both additions.
century_adjustment_if(y) ==
    (IF y < 1800 THEN 4 ELSE 0) + (IF y < 1900 THEN 2 ELSE 0)
      + (IF 2000 < y /\ y <= 2100 THEN 0 - 1 ELSE 0)

\* The net effect on base of the two statements that adjust it by year.
century_adjustment(y) ==
    (IF y < 1800 THEN 4 ELSE IF y < 1900 THEN 2 ELSE 0)
      + (IF 2000 < y /\ y <= 2100 THEN 0 - 1 ELSE 0)

\* base before the adjustments by year: the month code must be there.
base_unadjusted(d, m, y) ==
    LET yy == PyMod(y, 100)
        b0 == IntTimes125(yy) + d + month_code[m]
    IN  IF is_leap_year(y) /\ m \in {1, 2} THEN b0 - 1 ELSE b0

dow_base(d, m, y) == base_unadjusted(d, m, y) + century_adjustment(y)

\* The statements of day_of_week after its two checks.
day_of_week_body(d, m, y) ==
    IF m \notin DOMAIN month_code
    THEN KeyError(m)
    ELSE LET r == PyMod(dow_base(d, m, y), 7)
         IN  IF r \in DOMAIN weekday THEN Return(weekday[r]) ELSE KeyError(r)

\* day_of_week without its check of the month.
day_of_week_no_month_check(d, m, y) ==
    IF y < 1753
    THEN ValueError("This algorithm is intended for years >= 1753.")
    ELSE day_of_week_body(d, m, y)

day_of_week(d, m, y) ==
    IF y < 1753
    THEN ValueError("This algorithm is intended for years >= 1753.")
    ELSE IF m < 1 \/ m > 12
    THEN ValueError("Month must be in 1..12.")
    ELSE day_of_week_body(d, m, y)

\* The value of the local 'base' when day_of_week computed it, else <<>>.
dow_base_local(d, m, y) ==
    IF day_of_week(d, m, y).kind = "ValueError" \/ m \notin DOMAIN month_code
    THEN <<>>
    ELSE <<dow_base(d, m, y)>>

(* ------------------------------ week_number ---------------------------- *)
\* One dictionary kept between the calls in place of a new one per call.
month_len_shared ==
    IF month_len = <<>>
    THEN <<31, 28, 31, 30, 31, 30, 31, 31, 30, 31, 30, 31>>
    ELSE month_len

\* The dictionary literal, evaluated anew by every call.
month_len_literal == <<31, 28, 31, 30, 31, 30, 31, 31, 30, 31, 30, 31>>

\* February left at 28 whatever the year.
month_len_no_leap(y) == month_len_literal

\* The month_len dictionary of a call for year y.
month_len_for(y) ==
    IF is_leap_year(y)
    THEN [month_len_literal EXCEPT ![2] = 29]
    ELSE month_len_literal

\* sum(table[m] for m in range(lo, stop)): the first missing key raises.
RECURSIVE sum_range(_, _, _)
sum_range(table, lo, stop) ==
    IF lo >= stop
    THEN Return(0)
    ELSE IF lo \notin DOMAIN table
    THEN KeyError(lo)
    ELSE LET rest == sum_range(table, lo + 1, stop)
         IN  IF rest.kind = "return"
             THEN Return(table[lo] + rest.value)
             ELSE rest

\* range(1, month + 1) in place of range(1, month).
week_of_inclusive(table, d, m) ==
    LET s == sum_range(table, 1, m + 1)
    IN  IF s.kind = "return" THEN Return(PyFloorDiv(d + s.value, 7)) ELSE s

\* day_of_year and the result, given the call's dictionary.
week_of(table, d, m) ==
    LET s == sum_range(table, 1, m)
    IN  IF s.kind = "return" THEN Return(PyFloorDiv(d + s.value, 7)) ELSE s

week_number(d, m, y) == week_of(month_len_for(y), d, m)

(* ------------------------------ date_summary --------------------------- *)
\* week_number evaluated before day_of_week.
date_summary_week_first(d, m, y) ==
    LET leap == is_leap_year(y)
        wn == week_number(d, m, y)
        dw == day_of_week(d, m, y)
    IN  IF wn.kind # "return" THEN wn
        ELSE IF dw.kind # "return" THEN dw
        ELSE Return([leapyear |-> leap, weekday |-> dw.value, week |-> wn.value])

\* The dictionary display evaluates its values in order; an exception of one
\* ends the call before the next is evaluated.
date_summary(d, m, y) ==
    LET leap == is_leap_year(y)
        dw == day_of_week(d, m, y)
        wn == week_number(d, m, y)
    IN  IF dw.kind # "return" THEN dw
        ELSE IF wn.kind # "return" THEN wn
        ELSE Return([leapyear |-> leap, weekday |-> dw.value, week |-> wn.value])

(* ------------------------------ the calls ------------------------------ *)
IsLeapYear ==
    /\ fn = "none"
    /\ fn' = "is_leap_year"
    /\ outcome' = Return(is_leap_year(year))
    /\ base' = <<>>
    /\ UNCHANGED <<day, month, year, month_len, memo>>

DayOfWeek ==
    /\ fn = "none"
    /\ fn' = "day_of_week"
    /\ outcome' = day_of_week(day, month, year)
    /\ base' = dow_base_local(day, month, year)
    /\ UNCHANGED <<day, month, year, month_len, memo>>

WeekNumber ==
    /\ fn = "none"
    /\ fn' = "week_number"
    /\ outcome' = week_number(day, month, year)
    /\ month_len' = month_len_for(year)
    /\ base' = <<>>
    /\ UNCHANGED <<day, month, year, memo>>

DateSummary ==
    /\ fn = "none"
    /\ fn' = "date_summary"
    /\ outcome' = date_summary(day, month, year)
    /\ base' = dow_base_local(day, month, year)
    /\ month_len' = IF day_of_week(day, month, year).kind = "return"
                    THEN month_len_for(year)
                    ELSE month_len
    /\ UNCHANGED <<day, month, year, memo>>

\* The caller takes the next arguments; it may keep the call it has just
\* made to compare a later call with.
NextArguments ==
    /\ fn # "none"
    /\ \E d \in SeqDays, m \in SeqMonths, y \in SeqYears, keep \in BOOLEAN :
          /\ day' = d
          /\ month' = m
          /\ year' = y
          /\ memo' = IF keep
                     THEN [fn |-> fn, day |-> day, month |-> month,
                           year |-> year, outcome |-> outcome]
                     ELSE memo
    /\ fn' = "none"
    /\ outcome' = NoOutcome
    /\ UNCHANGED <<base, month_len>>

Init ==
    /\ day \in Days
    /\ month \in Months
    /\ year \in Years
    /\ fn = "none"
    /\ outcome = NoOutcome
    /\ base = <<>>
    /\ month_len = <<>>
    /\ memo = NoMemo

Next == IsLeapYear \/ DayOfWeek \/ WeekNumber \/ DateSummary

Spec == Init /\ [][Next]_vars

\* is_leap_year alone, on a wide range of years.
InitLeap ==
    /\ day = 1
    /\ month = 1
    /\ year \in LeapYears
    /\ fn = "none"
    /\ outcome = NoOutcome
    /\ base = <<>>
    /\ month_len = <<>>
    /\ memo = NoMemo

NextLeap == IsLeapYear

SpecLeap == InitLeap /\ [][NextLeap]_vars

\* Sequences of calls.
InitSeq ==
    /\ day \in SeqDays
    /\ month \in SeqMonths
    /\ year \in SeqYears
    /\ fn = "none"
    /\ outcome = NoOutcome
    /\ base = <<>>
    /\ month_len = <<>>
    /\ memo = NoMemo

NextSeq ==
    IsLeapYear \/ DayOfWeek \/ WeekNumber \/ DateSummary \/ NextArguments

SpecSeq == InitSeq /\ [][NextSeq]_vars

(* ------------------------------ properties ----------------------------- *)
WeekdayNames ==
    {"Sunday", "Monday", "Tuesday", "Wednesday", "Thursday", "Friday", "Saturday"}

Abs(n) == IF n < 0 THEN 0 - n ELSE n

\* k divides n, by the definition of divisibility.
Divides(k, n) == \E q \in (0 - Abs(n))..Abs(n) : n = k * q

\* C1: day_of_week(1, 1, 2000) returns "Saturday".
C1_Jan1_2000_Saturday ==
    (fn = "day_of_week" /\ day = 1 /\ month = 1 /\ year = 2000)
        => outcome = Return("Saturday")

\* C2: day_of_week raises ValueError if and only if year < 1753 or month < 1
\* or month > 12; the day never causes an error, and when the condition does
\* not hold a weekday name is returned.
C2_ValueErrorIff ==
    fn = "day_of_week" =>
        LET invalid == year < 1753 \/ month < 1 \/ month > 12
        IN  /\ (outcome.kind = "ValueError") <=> invalid
            /\ ~invalid => (outcome.kind = "return" /\ outcome.value \in WeekdayNames)

C2_Witness ==
    /\ fn = "day_of_week"
    /\ day > 31
    /\ year = 1753
    /\ month = 12
    /\ outcome.kind = "return"

\* C3: date_summary returns the aggregate of is_leap_year, day_of_week and
\* week_number when year >= 1753 and month is in 1..12, and fails with the
\* ValueError of day_of_week exactly when day_of_week fails.
C3_SummaryComposes ==
    fn = "date_summary" =>
        LET dw == day_of_week(day, month, year)
            wn == week_number(day, month, year)
        IN  /\ (year >= 1753 /\ month \in 1..12) =>
                  /\ outcome.kind = "return"
                  /\ outcome.value = [leapyear |-> is_leap_year(year),
                                      weekday |-> dw.value,
                                      week |-> wn.value]
            /\ outcome.kind \in {"return", "ValueError"}
            /\ (outcome.kind = "ValueError") <=> (dw.kind = "ValueError")
            /\ (dw.kind = "ValueError") => outcome.value = dw.value

C3_Witness ==
    /\ fn = "date_summary"
    /\ outcome.kind = "return"
    /\ month = 2
    /\ day = 29
    /\ outcome.value.leapyear
    /\ outcome.value.week = 8

\* C4: for every integer year, zero and negative years included,
\* is_leap_year(year) is true iff (4 divides year and 100 does not) or 400
\* divides year; true for 2000, 1996, 2024 and false for 1900, 2023, 2100.
C4_LeapYearRule ==
    fn = "is_leap_year" =>
        /\ outcome.kind = "return"
        /\ outcome.value <=>
              ((Divides(4, year) /\ ~Divides(100, year)) \/ Divides(400, year))
        /\ year \in {2000, 1996, 2024} => outcome.value
        /\ year \in {1900, 2023, 2100} => ~outcome.value

C4_Witness ==
    /\ fn = "is_leap_year"
    /\ year = 0 - 400
    /\ outcome = Return(TRUE)

\* Days of a common year before the first of each month.
DaysBeforeMonth == <<0, 31, 59, 90, 120, 151, 181, 212, 243, 273, 304, 334>>

\* C5: for month in 1..12, week_number(day, month, year) is (day + the
\* lengths of months 1..month-1) integer-divided by 7 (Python's //, the floor
\* of the quotient), February counting 29 exactly in a leap year;
\* week_number(1, 1, 2021) = 0 and week_number(10, 1, 2021) = 1.
C5_WeekNumberFormula ==
    (fn = "week_number" /\ month \in 1..12) =>
        LET doy == day + DaysBeforeMonth[month]
                     + (IF is_leap_year(year) /\ month > 2 THEN 1 ELSE 0)
        IN  /\ outcome.kind = "return"
            /\ 7 * outcome.value <= doy
            /\ doy < 7 * outcome.value + 7
            /\ (month = 1) => (7 * outcome.value <= day /\ day < 7 * outcome.value + 7)
            /\ (day = 1 /\ month = 1 /\ year = 2021) => outcome.value = 0
            /\ (day = 10 /\ month = 1 /\ year = 2021) => outcome.value = 1

C5_Witness ==
    /\ fn = "week_number"
    /\ month = 3
    /\ day = 3
    /\ year = 2024
    /\ outcome = Return(9)

\* C6 as claimed: for every month <= 0 or >= 13, week_number ends in a lookup
\* failure rather than returning an integer.
C6_LookupFailureOutside1To12 ==
    (fn = "week_number" /\ (month <= 0 \/ month >= 13)) =>
        outcome.kind = "KeyError"

\* C6 as amended: week_number ends in a lookup failure (KeyError for key 13)
\* exactly when month >= 14; for month <= 0 the sum is empty and it returns
\* day // 7, and for month = 13 it sums all twelve months and returns
\* (day + 365) // 7, or (day + 366) // 7 in a leap year.
C6_LookupFailureFrom14 ==
    fn = "week_number" =>
        /\ (outcome.kind = "KeyError") <=> (month >= 14)
        /\ month >= 14 => outcome = KeyError(13)
        /\ month < 14 => outcome.kind = "return"
        /\ month <= 0 => outcome = Return(day \div 7)
        /\ month = 13 =>
              outcome = Return((day + 365 + (IF is_leap_year(year) THEN 1 ELSE 0)) \div 7)

C6_Witness ==
    /\ fn = "week_number"
    /\ month = 14
    /\ outcome = KeyError(13)

\* The call kept in memo had the function and the arguments of the last call.
SameCallAsMemo ==
    /\ fn # "none"
    /\ memo.fn = fn
    /\ memo.year = year
    /\ (fn = "is_leap_year" \/ (memo.day = day /\ memo.month = month))

\* C7: a call with the inputs of an earlier call has the outcome of the
\* earlier call, whatever was called in between; the February length of 29
\* that week_number sets for a leap year does not persist: a later call for
\* a common year uses 28.
C7_PureAcrossCalls ==
    /\ SameCallAsMemo => outcome = memo.outcome
    /\ (fn = "week_number" /\ ~is_leap_year(year)) => month_len[2] = 28
    /\ (fn = "week_number" /\ is_leap_year(year)) => month_len[2] = 29

C7_Witness ==
    /\ memo.fn = "week_number"
    /\ fn = "week_number"
    /\ is_leap_year(memo.year)
    /\ ~is_leap_year(year)
    /\ month = 3
    /\ day = 3
    /\ month_len[2] = 28
    /\ outcome = Return(8)

\* The weekday of a Gregorian date by Zeller's congruence.
ZellerWeekday(d, m, y) ==
    LET mm == IF m >= 3 THEN m ELSE m + 12
        yy == IF m >= 3 THEN y ELSE y - 1
        k == yy % 100
        j == yy \div 100
        h == (d + ((13 * (mm + 1)) \div 5) + k + (k \div 4) + (j \div 4) + 5 * j) % 7
    IN  CASE h = 0 -> "Saturday"
          [] h = 1 -> "Sunday"
          [] h = 2 -> "Monday"
          [] h = 3 -> "Tuesday"
          [] h = 4 -> "Wednesday"
          [] h = 5 -> "Thursday"
          [] h = 6 -> "Friday"

GregorianMonthLength(m, y) ==
    IF m = 2
    THEN (IF (y % 4 = 0 /\ y % 100 # 0) \/ y % 400 = 0 THEN 29 ELSE 28)
    ELSE IF m \in {4, 6, 9, 11} THEN 30 ELSE 31

\* C8: for every valid Gregorian date with 1753 <= year <= 2100,
\* day_of_week returns the actual weekday of the date.
C8_ActualWeekday ==
    (/\ fn = "day_of_week"
     /\ 1753 <= year /\ year <= 2100
     /\ month \in 1..12
     /\ 1 <= day /\ day <= GregorianMonthLength(month, year))
        => outcome = Return(ZellerWeekday(day, month, year))

\* C9: the net adjustment of base by year is +4 for 1753..1799, +2 for
\* 1800..1899, 0 for 1900..2000, -1 for 2001..2100 and 0 above 2100; at most
\* one adjustment applies to a year.
C9_YearBands ==
    (fn = "day_of_week" /\ base # <<>>) =>
        LET adj == base[1] - base_unadjusted(day, month, year)
        IN  /\ year >= 1753
            /\ (1753 <= year /\ year <= 1799) => adj = 4
            /\ (1800 <= year /\ year <= 1899) => adj = 2
            /\ (1900 <= year /\ year <= 2000) => adj = 0
            /\ (2001 <= year /\ year <= 2100) => adj = 0 - 1
            /\ year > 2100 => adj = 0

C9_Witness ==
    /\ fn = "day_of_week"
    /\ base # <<>>
    /\ year = 2101
    /\ base[1] = base_unadjusted(day, month, year)

\* C10: for year >= 1753, month in 1..12 and any day, also one that makes
\* base negative, the remainder looked up is in 0..6, the lookup does not
\* fail and the result is the name of the remainder: 1 Sunday, 2 Monday,
\* 3 Tuesday, 4 Wednesday, 5 Thursday, 6 Friday, 0 Saturday.
C10_RemainderInRange ==
    (fn = "day_of_week" /\ year >= 1753 /\ month \in 1..12) =>
        /\ base # <<>>
        /\ outcome.kind = "return"
        /\ \E r \in 0..6 :
              /\ \E q \in (0 - Abs(base[1]))..Abs(base[1]) : base[1] = 7 * q + r
              /\ outcome.value =
                    <<"Saturday", "Sunday", "Monday", "Tuesday", "Wednesday",
                      "Thursday", "Friday">>[r + 1]

C10_Witness ==
    /\ fn = "day_of_week"
    /\ base # <<>>
    /\ base[1] < 0
    /\ outcome = Return("Friday")

====
